---- MODULE Spec2Model ----
(***************************************************************************)
(* Warehouse shift scheduler: demand computation (metrics_service.py),     *)
(* role matching (database.py) and the planning run (schedule_service.py). *)
(*                                                                         *)
(* Python strings are modelled as sequences of one-character strings, so   *)
(* that lower(), strip(), split(), replace() and the substring test 'in'   *)
(* are computed character by character.  A Python dict whose iteration     *)
(* order the code depends on is a sequence of <<key, value>> pairs in      *)
(* insertion order.  Non-integer quantities are kept as scaled integers:   *)
(* rates and pallet counts in hundredths, the shift capacity in            *)
(* thousandths of a minute.                                                *)
(***************************************************************************)
EXTENDS Integers, Sequences, FiniteSets, TLC

VARIABLES
  \* run_scheduler (schedule_service.py)
  pc, directory, forecast, required, pools, assigned, dirFailed,
  shortages, sent, notifyFailed, result,
  \* calculate_required_roles applied to arbitrary inputs (metrics_service.py)
  cpc, cMetrics, cForecast, cRoles,
  \* normalize_role applied to arbitrary strings (database.py)
  npc, nKey, nOnce, nTwice,
  \* find_best_match applied to arbitrary names and candidates (database.py)
  mpc, mName, mCandidates, mResult

vars == << pc, directory, forecast, required, pools, assigned, dirFailed,
           shortages, sent, notifyFailed, result,
           cpc, cMetrics, cForecast, cRoles, npc, nKey, nOnce, nTwice,
           mpc, mName, mCandidates, mResult >>

runVars  == << pc, directory, forecast, required, pools, assigned, dirFailed,
               shortages, sent, notifyFailed, result >>
calcVars == << cpc, cMetrics, cForecast, cRoles >>
normVars == << npc, nKey, nOnce, nTwice >>
matchVars == << mpc, mName, mCandidates, mResult >>

-----------------------------------------------------------------------------
(* Python str operations *)

Max(a, b) == IF a >= b THEN a ELSE b
Min(a, b) == IF a <= b THEN a ELSE b

\* str.lower() on one character
LowerChar(c) ==
  CASE c = "A" -> "a" [] c = "B" -> "b" [] c = "C" -> "c" [] c = "D" -> "d"
    [] c = "E" -> "e" [] c = "F" -> "f" [] c = "G" -> "g" [] c = "H" -> "h"
    [] c = "I" -> "i" [] c = "J" -> "j" [] c = "K" -> "k" [] c = "L" -> "l"
    [] c = "M" -> "m" [] c = "N" -> "n" [] c = "O" -> "o" [] c = "P" -> "p"
    [] c = "Q" -> "q" [] c = "R" -> "r" [] c = "S" -> "s" [] c = "T" -> "t"
    [] c = "U" -> "u" [] c = "V" -> "v" [] c = "W" -> "w" [] c = "X" -> "x"
    [] c = "Y" -> "y" [] c = "Z" -> "z"
    [] OTHER -> c

Lower(s) == [i \in 1..Len(s) |-> LowerChar(s[i])]

\* the characters str.strip() and the regex class \s remove
IsSpace(c) == c \in {" ", "\t", "\n"}

\* a in b  (substring test)
IsSubstr(a, b) ==
  \E i \in 0..(Len(b) - Len(a)) : \A j \in 1..Len(a) : b[i + j] = a[j]

\* s.replace(a, b) for single characters a, b
ReplaceChar(s, a, b) == [i \in 1..Len(s) |-> IF s[i] = a THEN b ELSE s[i]]

HasChar(s, c) == \E i \in 1..Len(s) : s[i] = c

FirstIndex(s, c) == CHOOSE i \in 1..Len(s) : s[i] = c /\ \A j \in 1..(i - 1) : s[j] # c

\* s.split(c, 1)[1]  (defined when c occurs in s)
AfterFirst(s, c) == SubSeq(s, FirstIndex(s, c) + 1, Len(s))

\* s.strip()
Strip(s) ==
  LET nonsp == {i \in 1..Len(s) : ~IsSpace(s[i])}
  IN  IF nonsp = {} THEN << >>
      ELSE LET lo == CHOOSE i \in nonsp : \A j \in nonsp : i <= j
               hi == CHOOSE i \in nonsp : \A j \in nonsp : i >= j
           IN  SubSeq(s, lo, hi)

-----------------------------------------------------------------------------
(* Python dict operations: an insertion-ordered dict is a sequence of pairs *)

DictKeys(d) == {d[i][1] : i \in 1..Len(d)}

DictHas(d, k) == k \in DictKeys(d)

\* d.get(k, default)
DictGet(d, k, default) ==
  IF DictHas(d, k) THEN d[CHOOSE i \in 1..Len(d) : d[i][1] = k][2] ELSE default

\* d[k] = v : an existing key keeps its position, a new key is appended
DictSet(d, k, v) ==
  IF DictHas(d, k)
  THEN [i \in 1..Len(d) |-> IF d[i][1] = k THEN << k, v >> ELSE d[i]]
  ELSE Append(d, << k, v >>)

\* d.get(k, default) for a dict whose order is never used (a TLA+ function)
Get(f, k, default) == IF k \in DOMAIN f THEN f[k] ELSE default

-----------------------------------------------------------------------------
(* config.py *)

ROLE_MAPPINGS ==
  <<
    << <<"f","o","r","k","l","i","f","t","_","d","r","i","v","e","r">>,  \* 'forklift_driver'
       << <<"f","o","r","k","l","i","f","t">>,
          <<"f","o","r","k","l","i","f","t"," ","d","r","i","v","e","r">>,
          <<"f","o","r","k","l","i","f","t"," ","o","p","e","r","a","t","o","r">>,
          <<"l","i","f","t"," ","d","r","i","v","e","r">>,
          <<"L","e","v","e","l"," ","1"," ","F","o","r","k","l","i","f","t"," ","D","r","i","v","e","r">>,
          <<"L","e","v","e","l"," ","2"," ","F","o","r","k","l","i","f","t"," ","D","r","i","v","e","r">>,
          <<"L","e","v","e","l"," ","3"," ","F","o","r","k","l","i","f","t"," ","D","r","i","v","e","r">> >> >>,
    << <<"p","i","c","k","e","r","/","p","a","c","k","e","r","s">>,  \* 'picker/packers'
       << <<"p","i","c","k","e","r">>,
          <<"p","a","c","k","e","r">>,
          <<"p","i","c","k","e","r","/","p","a","c","k","e","r">>,
          <<"o","r","d","e","r"," ","p","i","c","k","e","r">>,
          <<"w","a","r","e","h","o","u","s","e"," ","p","i","c","k","e","r">>,
          <<"G","e","n","e","r","a","l"," ","L","a","b","o","r">>,
          <<"Q","u","a","l","i","t","y"," ","C","o","n","t","r","o","l">> >> >>,
    << <<"b","e","n","d","i","_","d","r","i","v","e","r">>,  \* 'bendi_driver'
       << <<"b","e","n","d","i">>,
          <<"b","e","n","d","i"," ","d","r","i","v","e","r">>,
          <<"b","e","n","d","i"," ","o","p","e","r","a","t","o","r">>,
          <<"r","e","a","c","h"," ","t","r","u","c","k">> >> >>,
    << <<"c","o","n","s","o","l","i","d","a","t","i","o","n">>,  \* 'consolidation'
       << <<"c","o","n","s","o","l","i","d","a","t","i","o","n">>,
          <<"c","o","n","s","o","l","i","d","a","t","o","r">>,
          <<"i","n","v","e","n","t","o","r","y">>,
          <<"i","n","v","e","n","t","o","r","y"," ","c","o","n","t","r","o","l">> >> >>,
    << <<"l","u","m","p","e","r">>,  \* 'lumper'
       << <<"l","u","m","p","e","r">>,
          <<"L","u","m","p","e","r">> >> >>,
    << <<"r","e","c","e","i","v","e","r">>,  \* 'receiver'
       << <<"r","e","c","e","i","v","e","r">>,
          <<"r","e","c","e","i","v","i","n","g">>,
          <<"i","n","b","o","u","n","d"," ","w","o","r","k","e","r">>,
          <<"d","o","c","k"," ","w","o","r","k","e","r">> >> >>,
    << <<"g","e","n","e","r","a","l"," ","l","a","b","o","r">>,  \* 'general labor'
       << <<"g","e","n","e","r","a","l"," ","l","a","b","o","r">>,
          <<"g","e","n","e","r","a","l"," ","w","o","r","k","e","r">>,
          <<"w","a","r","e","h","o","u","s","e"," ","w","o","r","k","e","r">>,
          <<"l","a","b","o","r","e","r">>,
          <<"p","i","c","k","e","r">>,
          <<"p","a","c","k","e","r">> >> >>
  >>

\* WORKFORCE_EFFICIENCY = 0.85, in hundredths
WORKFORCE_EFFICIENCY == 85

\* HOURS_PER_SHIFT = 7.5, in tenths of an hour
HOURS_PER_SHIFT == 75

CASES_PER_PALLET == 75

\* DEFAULT_METRICS, rates in hundredths of a minute
DEFAULT_METRICS ==
  [ inbound |-> [avg_offload_time |-> 250, avg_scan_time |-> 15, avg_putaway_time |-> 250],
    picking |-> [avg_pick_time |-> 300, avg_scan_time |-> 15, avg_wrap_time |-> 75],
    load    |-> [avg_load_time_per_pallet |-> 300] ]

-----------------------------------------------------------------------------
(* string literals of the sources *)

s_inbound         == <<"i","n","b","o","u","n","d">>
s_picking         == <<"p","i","c","k","i","n","g">>
s_loading         == <<"l","o","a","d","i","n","g">>
s_replenishment   == <<"r","e","p","l","e","n","i","s","h","m","e","n","t">>
s_forklift_driver == <<"f","o","r","k","l","i","f","t","_","d","r","i","v","e","r">>
s_receiver        == <<"r","e","c","e","i","v","e","r">>
s_bendi_driver    == <<"b","e","n","d","i","_","d","r","i","v","e","r">>
s_general_labor   == <<"g","e","n","e","r","a","l","_","l","a","b","o","r">>
s_staff           == <<"s","t","a","f","f">>
s_consolidation   == <<"c","o","n","s","o","l","i","d","a","t","i","o","n">>
s_day             == <<"d","a","y">>

-----------------------------------------------------------------------------
(* metrics_service.py *)

\* Python None as a forecast value (forecast quantities themselves are >= 0)
PyNone == -1

EmptyDict == [k \in {} |-> 0]

\* get_metrics_summary()
get_metrics_summary == DEFAULT_METRICS

\* Python round(num / den) for den > 0: to the nearest integer, ties to even
RoundHalfEven(num, den) ==
  LET q == num \div den
      r == num % den
  IN  IF 2 * r < den THEN q
      ELSE IF 2 * r > den THEN q + 1
      ELSE IF q % 2 = 0 THEN q ELSE q + 1

\* HOURS_PER_SHIFT * 60 * WORKFORCE_EFFICIENCY, in thousandths of a minute
effective_work_mins_per_person == HOURS_PER_SHIFT * 60 * WORKFORCE_EFFICIENCY

\* max(1, round(units * rate / effective_work_mins_per_person)),
\* units and rate in hundredths
Headcount(units100, rate100) ==
  Max(1, RoundHalfEven(units100 * rate100, 10 * effective_work_mins_per_person))

\* shipping_pallets + round(total_cases / CASES_PER_PALLET, 2), in hundredths
ShippingDemand100(shipping_pallets, total_cases) ==
  100 * shipping_pallets + RoundHalfEven(100 * total_cases, CASES_PER_PALLET)

\* the TypeError raised by arithmetic or an ordering comparison on None
RaisesTypeError(m, f) ==
  \/ Get(f, "daily_order_qty", 0) = PyNone            \* total_cases / CASES_PER_PALLET
  \/ Get(f, "daily_shipping_pallets", 0) = PyNone     \* shipping_pallets + ...
  \/ /\ "inbound" \in DOMAIN m                        \* incoming_pallets > 0
     /\ Get(f, "daily_incoming_pallets", 0) = PyNone

\* if "inbound" in metrics_summaries and incoming_pallets > 0: ...
InboundRoles(m, incoming_pallets) ==
  IF "inbound" \in DOMAIN m /\ incoming_pallets > 0
  THEN LET inbound == m["inbound"]
       IN  [ forklift_driver_inbound |->
               Headcount(100 * incoming_pallets, Get(inbound, "avg_offload_time", 215)),
             scanner_inbound |->
               Headcount(100 * incoming_pallets, Get(inbound, "avg_scan_time", 15)),
             bendi_driver_inbound |->
               Headcount(100 * incoming_pallets, Get(inbound, "avg_putaway_time", 300)) ]
  ELSE EmptyDict

\* if shipping_pallets > 0 or total_cases > 0: if "picking" in metrics_summaries: ...
PickingRoles(m, shipping100, total_cases) ==
  IF (shipping100 > 0 \/ total_cases > 0) /\ "picking" \in DOMAIN m
  THEN LET picking == m["picking"]
       IN  [ bendi_driver_picking |->
               Headcount(shipping100, Get(picking, "avg_pick_time", 300)),
             scanner_picking |->
               Headcount(shipping100, Get(picking, "avg_scan_time", 15)),
             packer_wrapping |->
               Headcount(shipping100, Get(picking, "avg_wrap_time", 75)) ]
  ELSE EmptyDict

\* the loading block is entered
LoadingEntered(m, shipping100, total_cases) ==
  (shipping100 > 0 \/ total_cases > 0) /\ "load" \in DOMAIN m

\* "if staged_pallets:" : None and 0 are false
Truthy(x) == x # PyNone /\ x # 0

\* required_roles["forklift_driver_loading"] += ... on a key that was never set
RaisesKeyError(m, shipping100, total_cases, staged_pallets) ==
  /\ LoadingEntered(m, shipping100, total_cases)
  /\ ~Truthy(staged_pallets)
  /\ shipping100 > 0

\* Variant of LoadingRoles that adds the two forklift workloads before taking the
\* floored headcount; differs whenever the two parts floor up separately.
LoadingRoles_sumThenRound(m, shipping100, total_cases, staged_pallets) ==
  IF LoadingEntered(m, shipping100, total_cases) /\ Truthy(staged_pallets)
  THEN [ forklift_driver_loading |->
           Headcount(100 * staged_pallets + shipping100,
                     Get(m["load"], "avg_load_time_per_pallet", 250)) ]
  ELSE EmptyDict

\* the loading block when it raises no KeyError: the staged component is set
\* under "if staged_pallets:", the forecast component is added under
\* "if shipping_pallets > 0:"
LoadingRoles(m, shipping100, total_cases, staged_pallets) ==
  IF LoadingEntered(m, shipping100, total_cases) /\ Truthy(staged_pallets)
  THEN LET load_time_per_pallet == Get(m["load"], "avg_load_time_per_pallet", 250)
           staged   == Headcount(100 * staged_pallets, load_time_per_pallet)
           forecasted == IF shipping100 > 0
                         THEN Headcount(shipping100, load_time_per_pallet)
                         ELSE 0
       IN  [ forklift_driver_loading |-> staged + forecasted ]
  ELSE EmptyDict

\* the dict "required_roles" at the "Combine roles" comment (no exception so far)
StreamRoles(m, f) ==
  LET incoming_pallets == Get(f, "daily_incoming_pallets", 0)
      total_cases      == Get(f, "daily_order_qty", 0)
      staged_pallets   == Get(f, "staged_pallets", 0)
      shipping100      == ShippingDemand100(Get(f, "daily_shipping_pallets", 0), total_cases)
  IN  InboundRoles(m, incoming_pallets)
        @@ PickingRoles(m, shipping100, total_cases)
        @@ LoadingRoles(m, shipping100, total_cases, staged_pallets)

\* max(1, round(total_headcount * 0.1))
ConsolidationHeadCount(rr) ==
  LET total_forklift_drivers == Get(rr, "forklift_driver_inbound", 0)
                                  + Get(rr, "forklift_driver_loading", 0)
      total_scanners == Get(rr, "scanner_inbound", 0) + Get(rr, "scanner_picking", 0)
      total_packers  == Get(rr, "packer_wrapping", 0)
      total_bendi_drivers == Get(rr, "bendi_driver_inbound", 0)
                               + Get(rr, "bendi_driver_picking", 0)
      total_headcount == total_forklift_drivers + total_bendi_drivers + total_scanners
                           + total_packers + Get(rr, "picker", 0)
  IN  Max(1, RoundHalfEven(total_headcount, 10))

\* final_roles
FinalRoles(rr) ==
  << << s_inbound,
        << << s_forklift_driver, Get(rr, "forklift_driver_inbound", 0) >>,
           << s_receiver, Get(rr, "scanner_inbound", 0) >>,
           << s_bendi_driver, Get(rr, "bendi_driver_inbound", 0) >> >> >>,
     << s_picking,
        << << s_bendi_driver, Get(rr, "bendi_driver_picking", 0) >>,
           << s_general_labor,
              Get(rr, "scanner_picking", 0) + Get(rr, "packer_wrapping", 0) >> >> >>,
     << s_loading,
        << << s_forklift_driver, Get(rr, "forklift_driver_loading", 0) >> >> >>,
     << s_replenishment,
        << << s_staff, ConsolidationHeadCount(rr) >> >> >> >>

\* Variant of FallbackRoles that also carries a 'loading' entry.
FallbackRoles_withLoading ==
  << << s_loading, << << s_forklift_driver, 0 >> >> >>,
     << s_replenishment, << << s_staff, 1 >> >> >> >>

\* the dict returned by "except Exception"
FallbackRoles == << << s_replenishment, << << s_staff, 1 >> >> >> >>

\* some statement of the try block raises
CalculationRaises(m, f) ==
  \/ RaisesTypeError(m, f)
  \/ RaisesKeyError(m,
                    ShippingDemand100(Get(f, "daily_shipping_pallets", 0),
                                      Get(f, "daily_order_qty", 0)),
                    Get(f, "daily_order_qty", 0),
                    Get(f, "staged_pallets", 0))

calculate_required_roles(m, f) ==
  IF CalculationRaises(m, f) THEN FallbackRoles ELSE FinalRoles(StreamRoles(m, f))

-----------------------------------------------------------------------------
(* database.py *)

\* Variant of normalize_role that drops the trailing 's' before strip().
normalize_role_stripBeforeTrim(role) ==
  LET lowered  == Lower(role)
      nos      == IF Len(lowered) > 0 /\ lowered[Len(lowered)] = "s"
                  THEN SubSeq(lowered, 1, Len(lowered) - 1)
                  ELSE lowered
      trimmed  == Strip(nos)
      starts   == {i \in 1..Len(trimmed) :
                     ~IsSpace(trimmed[i]) \/ i = 1 \/ ~IsSpace(trimmed[i - 1])}
      idx[k \in 0..Cardinality(starts)] ==
        IF k = 0 THEN 0 ELSE CHOOSE i \in starts : i > idx[k - 1] /\
                                  \A j \in starts : j > idx[k - 1] => i <= j
  IN  [k \in 1..Cardinality(starts) |->
         IF IsSpace(trimmed[idx[k]]) THEN "_" ELSE trimmed[idx[k]]]

\* role.lower().strip(); re.sub(r's$', '', role); re.sub(r'\s+', '_', role)
normalize_role(role) ==
  LET trimmed  == Strip(Lower(role))
      \* 's$' : one trailing "s" (after strip() no newline is left for '$')
      nos      == IF Len(trimmed) > 0 /\ trimmed[Len(trimmed)] = "s"
                  THEN SubSeq(trimmed, 1, Len(trimmed) - 1)
                  ELSE trimmed
      \* '\s+' -> '_' : keep each non-space, and the first space of each run
      starts   == {i \in 1..Len(nos) :
                     ~IsSpace(nos[i]) \/ i = 1 \/ ~IsSpace(nos[i - 1])}
      idx[k \in 0..Cardinality(starts)] ==
        IF k = 0 THEN 0 ELSE CHOOSE i \in starts : i > idx[k - 1] /\
                                  \A j \in starts : j > idx[k - 1] => i <= j
  IN  [k \in 1..Cardinality(starts) |->
         IF IsSpace(nos[idx[k]]) THEN "_" ELSE nos[idx[k]]]

\* Variant of is_employee_available without the on_leave test.
is_employee_available_ignoreLeave(metadata) ==
  /\ Get(metadata, "active", TRUE)
  /\ LET shift_preferences == Get(metadata, "shift_preferences", << >>)
     IN  ~(shift_preferences # << >> /\ ~IsSubstr(s_day, shift_preferences))

\* is_employee_available(metadata)
is_employee_available(metadata) ==
  /\ Get(metadata, "active", TRUE)
  /\ ~Get(metadata, "on_leave", FALSE)
  /\ LET shift_preferences == Get(metadata, "shift_preferences", << >>)
     IN  ~(shift_preferences # << >> /\ ~IsSubstr(s_day, shift_preferences))

\* ROLE_MAPPINGS.get(key, [])
RoleMappingsGet(key) == DictGet(ROLE_MAPPINGS, key, << >>)

\* role_search_terms of one role
RoleSearchTerms(role) ==
  (IF HasChar(role, "_") THEN RoleMappingsGet(AfterFirst(role, "_")) ELSE << >>)
    \o RoleMappingsGet(role)
    \o << Lower(role) >>

\* Variant of TermMatches that only looks for the search term inside the titles.
TermMatches_termInTitle(search_term, metadata) ==
  LET job_title            == Lower(Get(metadata, "original_job_title", << >>))
      normalized_job_title == Lower(Get(metadata, "normalized_job_title", << >>))
      term                 == Lower(search_term)
  IN  \/ IsSubstr(term, job_title)
      \/ IsSubstr(term, normalized_job_title)

\* the four-way containment test between one search term and the two job titles
TermMatches(search_term, metadata) ==
  LET job_title            == Lower(Get(metadata, "original_job_title", << >>))
      normalized_job_title == Lower(Get(metadata, "normalized_job_title", << >>))
      term                 == Lower(search_term)
  IN  \/ IsSubstr(term, job_title)
      \/ IsSubstr(term, normalized_job_title)
      \/ IsSubstr(job_title, term)
      \/ IsSubstr(normalized_job_title, term)

EmployeeMatches(role, metadata) ==
  LET terms == RoleSearchTerms(role)
  IN  \E t \in 1..Len(terms) : TermMatches(terms[t], metadata)

\* the employees appended to matched_employees[role], in directory order
RECURSIVE MatchRole(_, _, _)
MatchRole(role, all_employees, i) ==
  IF i > Len(all_employees) THEN << >>
  ELSE LET e == all_employees[i]
       IN  (IF is_employee_available(e.metadata) /\ EmployeeMatches(role, e.metadata)
            THEN << e >> ELSE << >>)
             \o MatchRole(role, all_employees, i + 1)

\* retrieve_employees(required_roles) for a flattened required_roles;
\* "fetch" is what employee_collection.get() does: it raises, or returns the
\* collection
retrieve_employees(required_roles, fetch) ==
  IF fetch.raises THEN << >>                         \* except Exception: return {}
  ELSE IF Len(fetch.employees) = 0 THEN << >>        \* "No employees found in database"
  ELSE [r \in 1..Len(required_roles) |->
          << required_roles[r][1], MatchRole(required_roles[r][1], fetch.employees, 1) >>]

\* Levenshtein.distance(a, b), unit costs: one row of the edit-distance table
\* computed from the row before; row[k] is the distance to b[1..k-1]
RECURSIVE LevRow(_, _, _, _)
LevRow(prev, ch, b, cur) ==
  IF Len(cur) = Len(b) + 1 THEN cur
  ELSE LET k == Len(cur) + 1
           v == Min(Min(prev[k] + 1, cur[k - 1] + 1),
                    prev[k - 1] + (IF b[k - 1] = ch THEN 0 ELSE 1))
       IN  LevRow(prev, ch, b, Append(cur, v))

RECURSIVE LevRows(_, _, _, _)
LevRows(a, b, i, prev) ==
  IF i > Len(a) THEN prev
  ELSE LevRows(a, b, i + 1, LevRow(prev, a[i], b, << prev[1] + 1 >>))

Levenshtein_distance(a, b) ==
  LevRows(a, b, 1, [k \in 1..(Len(b) + 1) |-> k - 1])[Len(b) + 1]

\* Python's Optional[str]: None is << >>, the id x is << x >>
PyNoneId == << >>

\* the state find_best_match starts its loops with: nothing returned,
\* best_match = None and best_score = inf (no best yet)
NoBest == [returned |-> PyNoneId, best |-> << >>]

\* Variant of VariationLoop whose update test is <= instead of <.
RECURSIVE VariationLoop_lastWins(_, _, _, _, _)
VariationLoop_lastWins(name_lower, emp_id, name_variations, v, st) ==
  IF v > Len(name_variations) \/ st.returned # PyNoneId THEN st
  ELSE LET variation_lower == Lower(name_variations[v])
       IN  IF name_lower = variation_lower
           THEN [st EXCEPT !.returned = << emp_id >>]
           ELSE LET distance == Levenshtein_distance(name_lower, variation_lower)
                IN  VariationLoop_lastWins(name_lower, emp_id, name_variations, v + 1,
                      IF st.best = << >> \/ distance <= st.best[1].best_score
                      THEN [st EXCEPT !.best = << [best_match |-> emp_id,
                                                   best_score |-> distance] >>]
                      ELSE st)

\* "for variation in name_variations": an exact match returns emp_id, a
\* strictly smaller distance replaces best_score and best_match
RECURSIVE VariationLoop(_, _, _, _, _)
VariationLoop(name_lower, emp_id, name_variations, v, st) ==
  IF v > Len(name_variations) \/ st.returned # PyNoneId THEN st
  ELSE LET variation_lower == Lower(name_variations[v])
       IN  IF name_lower = variation_lower
           THEN [st EXCEPT !.returned = << emp_id >>]
           ELSE LET distance == Levenshtein_distance(name_lower, variation_lower)
                IN  VariationLoop(name_lower, emp_id, name_variations, v + 1,
                      IF st.best = << >> \/ distance < st.best[1].best_score
                      THEN [st EXCEPT !.best = << [best_match |-> emp_id,
                                                   best_score |-> distance] >>]
                      ELSE st)

\* "for emp_id in employee_list"; get[emp_id] is what
\* employee_collection.get(ids=[emp_id]) and json.loads do for that id: the
\* lookup raises, finds no record, finds a record without name_variations,
\* finds name_variations that is no JSON, or finds a list of names
RECURSIVE CandidateLoop(_, _, _, _, _)
CandidateLoop(name_lower, employee_list, get, i, st) ==
  IF i > Len(employee_list) \/ st.returned # PyNoneId THEN st
  ELSE LET emp_id == employee_list[i]
           answer == get[emp_id]
           name_variations ==
             IF answer.kind = "list" /\ answer.name_variations # << >>
             THEN answer.name_variations
             ELSE << emp_id >>              \* "If no variations stored, use the ID"
       IN  CandidateLoop(name_lower, employee_list, get, i + 1,
             IF answer.kind \in {"raises", "no_record", "malformed"}
             THEN st                        \* continue / except Exception
             ELSE VariationLoop(name_lower, emp_id, name_variations, 1, st))

\* find_best_match(name, employee_list)
find_best_match(name, employee_list, get) ==
  LET st == CandidateLoop(Lower(name), employee_list, get, 1, NoBest)
  IN  IF st.returned # PyNoneId THEN st.returned
      ELSE IF st.best # << >> /\ 10 * st.best[1].best_score <= 3 * Len(name)
           THEN << st.best[1].best_match >>   \* best_score <= len(name) * 0.3
           ELSE PyNoneId

-----------------------------------------------------------------------------
(* schedule_service.py *)

RECURSIVE SumField(_, _)
\* sum(order.get(field, 0) for order in orders)
SumField(orders, field) ==
  IF Len(orders) = 0 THEN 0
  ELSE Get(Head(orders), field, 0) + SumField(Tail(orders), field)

RECURSIVE CasesToPick(_)
\* order_qty of the PIECE_PICK / CASE_PICK orders that carry no pallet quantity
CasesToPick(orders) ==
  IF Len(orders) = 0 THEN 0
  ELSE LET order == Head(orders)
       IN  (IF Get(order, "picking_type", "") \in {"PIECE_PICK", "CASE_PICK"}
               /\ Get(order, "pallet_qty", 0) = 0
            THEN Get(order, "order_qty", 0) ELSE 0)
             + CasesToPick(Tail(orders))

\* Variant of get_orders_for_scheduling without the except clause: the API
\* exception reaches run_scheduler.
get_orders_for_scheduling_propagate(api) ==
  IF api.raises
  THEN [raised |-> TRUE, forecast_data |-> EmptyDict]
  ELSE [raised |-> FALSE,
        forecast_data |->
          [ daily_shipping_pallets |-> SumField(api.outbound_orders, "pallet_qty"),
            daily_incoming_pallets |-> api.incoming_pallets,
            daily_order_qty        |-> SumField(api.outbound_orders, "order_qty"),
            cases_to_pick          |-> CasesToPick(api.outbound_orders),
            staged_pallets         |-> SumField(api.picked_orders, "pallet_qty") ]]

\* get_orders_for_scheduling(target_date); "api" is what the order and inbound
\* collaborators answer for that date.  "raised" says whether an exception
\* leaves the function.
get_orders_for_scheduling(api) ==
  IF api.raises
  THEN [raised |-> FALSE, forecast_data |-> EmptyDict]   \* except Exception: return {}, {}
  ELSE [raised |-> FALSE,
        forecast_data |->
          [ daily_shipping_pallets |-> SumField(api.outbound_orders, "pallet_qty"),
            daily_incoming_pallets |-> api.incoming_pallets,
            daily_order_qty        |-> SumField(api.outbound_orders, "order_qty"),
            cases_to_pick          |-> CasesToPick(api.outbound_orders),
            staged_pallets         |-> SumField(api.picked_orders, "pallet_qty") ]]

\* flattened_roles: role_key = f"{operation}_{role.replace(' ', '_')}" -> count
RECURSIVE FlattenedRoles(_, _, _, _)
FlattenedRoles(required_roles, o, r, acc) ==
  IF o > Len(required_roles) THEN acc
  ELSE IF r > Len(required_roles[o][2]) THEN FlattenedRoles(required_roles, o + 1, 1, acc)
  ELSE LET operation == required_roles[o][1]
           role      == required_roles[o][2][r][1]
           count     == required_roles[o][2][r][2]
           role_key  == operation \o << "_" >> \o ReplaceChar(role, " ", "_")
       IN  FlattenedRoles(required_roles, o, r + 1, DictSet(acc, role_key, count))

\* role_key.split('_', 1)[1] if '_' in role_key else role_key, then '_' -> ' '
BaseRole(role_key) ==
  ReplaceChar(IF HasChar(role_key, "_") THEN AfterFirst(role_key, "_") ELSE role_key,
              "_", " ")

\* base_roles_lookup: base role -> total count over the operations
RECURSIVE BaseRolesLookup(_, _, _)
BaseRolesLookup(flattened_roles, i, acc) ==
  IF i > Len(flattened_roles) THEN acc
  ELSE LET base_role == BaseRole(flattened_roles[i][1])
           count     == flattened_roles[i][2]
       IN  BaseRolesLookup(flattened_roles, i + 1,
                           DictSet(acc, base_role, DictGet(acc, base_role, 0) + count))

\* Variant of AssignLoop that leaves the pool as it was after an assignment.
RECURSIVE AssignLoop_keepPool(_, _, _)
AssignLoop_keepPool(flattened_roles, i, st) ==
  IF i > Len(flattened_roles) THEN st
  ELSE LET base_role           == BaseRole(flattened_roles[i][1])
           count               == flattened_roles[i][2]
           available_employees == DictGet(st.employee_pools, base_role, << >>)
           assigned_count      == Min(count, Len(available_employees))
           already             == DictGet(st.assigned_employees, base_role, << >>)
       IN  AssignLoop_keepPool(flattened_roles, i + 1,
             [ assigned_employees |->
                 DictSet(st.assigned_employees, base_role,
                         already \o SubSeq(available_employees, 1, assigned_count)),
               employee_pools |-> st.employee_pools ])

\* the assignment loop over flattened_roles; st = [assigned_employees, employee_pools]
RECURSIVE AssignLoop(_, _, _)
AssignLoop(flattened_roles, i, st) ==
  IF i > Len(flattened_roles) THEN st
  ELSE LET base_role           == BaseRole(flattened_roles[i][1])
           count               == flattened_roles[i][2]
           available_employees == DictGet(st.employee_pools, base_role, << >>)
           assigned_count      == Min(count, Len(available_employees))
           already             == DictGet(st.assigned_employees, base_role, << >>)
       IN  AssignLoop(flattened_roles, i + 1,
             [ assigned_employees |->
                 DictSet(st.assigned_employees, base_role,
                         already \o SubSeq(available_employees, 1, assigned_count)),
               employee_pools |->
                 DictSet(st.employee_pools, base_role,
                         SubSeq(available_employees, assigned_count + 1,
                                Len(available_employees))) ])

\* assign_employees_to_roles(required_roles): the pools it was handed by
\* retrieve_employees and the assignment it returns
assign_employees_to_roles(required_roles, fetch) ==
  LET flattened_roles   == FlattenedRoles(required_roles, 1, 1, << >>)
      base_roles_lookup == BaseRolesLookup(flattened_roles, 1, << >>)
      matched_employees == retrieve_employees(base_roles_lookup, fetch)
      final == AssignLoop(flattened_roles, 1,
                          [assigned_employees |-> << >>,
                           employee_pools |-> matched_employees])
  IN  [ matched_employees |-> matched_employees,
        assigned_employees |-> final.assigned_employees ]

\* flatten_roles(required_roles) of run_scheduler
RECURSIVE flatten_roles(_, _, _, _)
flatten_roles(required_roles, o, r, acc) ==
  IF o > Len(required_roles) THEN acc
  ELSE IF r > Len(required_roles[o][2]) THEN flatten_roles(required_roles, o + 1, 1, acc)
  ELSE LET operation == required_roles[o][1]
           role      == required_roles[o][2][r][1]
           count     == required_roles[o][2][r][2]
           base_role == IF operation = s_replenishment /\ role = s_staff
                        THEN s_consolidation ELSE role
       IN  flatten_roles(required_roles, o, r + 1,
                         DictSet(acc, base_role, DictGet(acc, base_role, 0) + count))

\* the role under which run_scheduler looks an assignment up
LookupRole(role_key) ==
  IF role_key = s_consolidation THEN s_staff ELSE ReplaceChar(role_key, "_", " ")

\* Variant of ComputeShortages whose test is <= instead of <.
RECURSIVE ComputeShortages_atMost(_, _, _, _)
ComputeShortages_atMost(flat_roles, assigned_employees, i, acc) ==
  IF i > Len(flat_roles) THEN acc
  ELSE LET role_key       == flat_roles[i][1]
           required_count == flat_roles[i][2]
           assigned_count == Len(DictGet(assigned_employees, LookupRole(role_key), << >>))
       IN  ComputeShortages_atMost(flat_roles, assigned_employees, i + 1,
             IF assigned_count <= required_count
             THEN DictSet(acc, role_key, required_count - assigned_count)
             ELSE acc)

\* "Calculate shortages only for tomorrow"
RECURSIVE ComputeShortages(_, _, _, _)
ComputeShortages(flat_roles, assigned_employees, i, acc) ==
  IF i > Len(flat_roles) THEN acc
  ELSE LET role_key       == flat_roles[i][1]
           required_count == flat_roles[i][2]
           assigned_count == Len(DictGet(assigned_employees, LookupRole(role_key), << >>))
       IN  ComputeShortages(flat_roles, assigned_employees, i + 1,
             IF assigned_count < required_count
             THEN DictSet(acc, role_key, required_count - assigned_count)
             ELSE acc)

-----------------------------------------------------------------------------
(* the collaborators' answers and the directory content *)

MaxEmployees == 2

\* the metadata stored with an employee: job titles (none at all, a synonym
\* of forklift_driver, a title shared by two roles, a title of one role, a raw
\* title with an empty normalized one) and
\* availability flags (none: the defaults; on leave; inactive; a shift
\* preference with or without "day")
EmployeeMetadata ==
  { EmptyDict,
    [original_job_title |-> <<"F","o","r","k","l","i","f","t"," ","O","p","e","r","a","t","o","r">>,
     normalized_job_title |-> <<"f","o","r","k","l","i","f","t","_","o","p","e","r","a","t","o","r">>],
    [original_job_title |-> <<"D","r","i","v","e","r">>,
     normalized_job_title |-> <<"d","r","i","v","e","r">>],
    [original_job_title |-> <<"R","e","c","e","i","v","e","r">>,
     normalized_job_title |-> <<"r","e","c","e","i","v","e","r">>,
     active |-> TRUE, on_leave |-> FALSE,
     shift_preferences |-> <<"d","a","y">>],
    [original_job_title |-> <<"R","e","c","e","i","v","e","r">>,
     normalized_job_title |-> <<"r","e","c","e","i","v","e","r">>,
     on_leave |-> TRUE],
    [original_job_title |-> <<"D","r","i","v","e","r">>,
     normalized_job_title |-> <<"d","r","i","v","e","r">>,
     shift_preferences |-> <<"n","i","g","h","t">>],
    [original_job_title |-> <<"R","e","c","e","i","v","e","r">>,
     normalized_job_title |-> << >>],
    [active |-> FALSE] }

\* the employee collection: ids 1..n in order, each with its metadata
Directories ==
  UNION { { [i \in 1..n |-> [id |-> i, metadata |-> md[i]]] :
              md \in [1..n -> EmployeeMetadata] } : n \in 0..MaxEmployees }

\* what the order and inbound collaborators answer for one date
ApiAnswers ==
  { [raises |-> TRUE, outbound_orders |-> << >>, picked_orders |-> << >>,
     incoming_pallets |-> 0],
    [raises |-> FALSE, outbound_orders |-> << >>, picked_orders |-> << >>,
     incoming_pallets |-> 250],
    [raises |-> FALSE,
     outbound_orders |-> << [pallet_qty |-> 0, order_qty |-> 3750,
                             picking_type |-> "CASE_PICK"] >>,
     picked_orders |-> << [pallet_qty |-> 20] >>,
     incoming_pallets |-> 100],
    [raises |-> FALSE,
     outbound_orders |-> << [pallet_qty |-> 50, order_qty |-> 0,
                             picking_type |-> "PALLET_PICK"] >>,
     picked_orders |-> << >>,
     incoming_pallets |-> 0] }

\* what employee_collection.get() does
DirectoryFetches(dir) ==
  { [raises |-> TRUE, employees |-> << >>], [raises |-> FALSE, employees |-> dir] }

\* send_schedule_email / send_combined_forecast_email: the notification is
\* delivered or not, and control returns to run_scheduler either way
send_outcomes == { [delivered |-> TRUE, raises |-> FALSE],
                   [delivered |-> FALSE, raises |-> FALSE] }

Days == {"tomorrow", "day_after"}

-----------------------------------------------------------------------------
(* run_scheduler *)

CalcIdle == cpc = "idle" /\ cMetrics = EmptyDict /\ cForecast = EmptyDict /\ cRoles = << >>
NormIdle == npc = "idle" /\ nKey = << >> /\ nOnce = << >> /\ nTwice = << >>
MatchIdle == mpc = "idle" /\ mName = << >> /\ mCandidates = << >> /\ mResult = << >>
RunIdle ==
  /\ pc = "idle" /\ directory = << >>
  /\ forecast = [d \in Days |-> EmptyDict]
  /\ required = [d \in Days |-> << >>]
  /\ pools = [d \in Days |-> << >>]
  /\ assigned = [d \in Days |-> << >>]
  /\ dirFailed = [d \in Days |-> FALSE]
  /\ shortages = << >> /\ sent = << >> /\ notifyFailed = FALSE /\ result = "pending"

Init ==
  /\ pc = "fetch_tomorrow"
  /\ directory \in Directories
  /\ forecast = [d \in Days |-> EmptyDict]
  /\ required = [d \in Days |-> << >>]
  /\ pools = [d \in Days |-> << >>]
  /\ assigned = [d \in Days |-> << >>]
  /\ dirFailed = [d \in Days |-> FALSE]
  /\ shortages = << >>
  /\ sent = << >>
  /\ notifyFailed = FALSE
  /\ result = "pending"
  /\ CalcIdle /\ NormIdle /\ MatchIdle

\* forecast_data_<day>, _ = get_orders_for_scheduling(<day>_start)
FetchForecast(day, next) ==
  \E api \in ApiAnswers :
    LET r == get_orders_for_scheduling(api)
    IN  IF r.raised
        THEN pc' = "raised" /\ UNCHANGED forecast
        ELSE pc' = next /\ forecast' = [forecast EXCEPT ![day] = r.forecast_data]

FetchTomorrow ==
  /\ pc = "fetch_tomorrow"
  /\ FetchForecast("tomorrow", "fetch_day_after")
  /\ UNCHANGED << directory, required, pools, assigned, dirFailed, shortages, sent,
                  notifyFailed, result, calcVars, normVars, matchVars >>

FetchDayAfter ==
  /\ pc = "fetch_day_after"
  /\ FetchForecast("day_after", "check")
  /\ UNCHANGED << directory, required, pools, assigned, dirFailed, shortages, sent,
                  notifyFailed, result, calcVars, normVars, matchVars >>

\* Variant of ForecastMissing that needs both forecasts to be missing.
ForecastMissing_both(forecast_data_tomorrow, forecast_data_day_after) ==
  DOMAIN forecast_data_tomorrow = {} /\ DOMAIN forecast_data_day_after = {}

\* not forecast_data_tomorrow or not forecast_data_day_after
ForecastMissing(forecast_data_tomorrow, forecast_data_day_after) ==
  DOMAIN forecast_data_tomorrow = {} \/ DOMAIN forecast_data_day_after = {}

\* return None
AbortRun ==
  /\ pc = "check"
  /\ ForecastMissing(forecast["tomorrow"], forecast["day_after"])
  /\ result' = "None"
  /\ pc' = "returned"
  /\ UNCHANGED << directory, forecast, required, pools, assigned, dirFailed, shortages,
                  sent, notifyFailed, calcVars, normVars, matchVars >>

\* required_roles_<day> = calculate_required_roles(metrics_summaries, forecast_data_<day>)
CalculateRoles ==
  /\ pc = "check"
  /\ ~ForecastMissing(forecast["tomorrow"], forecast["day_after"])
  /\ required' = [d \in Days |-> calculate_required_roles(get_metrics_summary, forecast[d])]
  /\ pc' = "assign_tomorrow"
  /\ UNCHANGED << directory, forecast, pools, assigned, dirFailed, shortages, sent,
                  notifyFailed, result, calcVars, normVars, matchVars >>

\* assigned_employees_<day> = assign_employees_to_roles(required_roles_<day>)
AssignDay(day, next) ==
  \E fetch \in DirectoryFetches(directory) :
    LET a == assign_employees_to_roles(required[day], fetch)
    IN  /\ pools' = [pools EXCEPT ![day] = a.matched_employees]
        /\ assigned' = [assigned EXCEPT ![day] = a.assigned_employees]
        /\ dirFailed' = [dirFailed EXCEPT ![day] = fetch.raises]
        /\ pc' = next

AssignTomorrow ==
  /\ pc = "assign_tomorrow"
  /\ AssignDay("tomorrow", "assign_day_after")
  /\ UNCHANGED << directory, forecast, required, shortages, sent, notifyFailed,
                  result, calcVars, normVars, matchVars >>

AssignDayAfter ==
  /\ pc = "assign_day_after"
  /\ AssignDay("day_after", "shortages")
  /\ UNCHANGED << directory, forecast, required, shortages, sent, notifyFailed,
                  result, calcVars, normVars, matchVars >>

\* flat_roles_tomorrow and the shortages loop
Shortages ==
  /\ pc = "shortages"
  /\ shortages' = ComputeShortages(flatten_roles(required["tomorrow"], 1, 1, << >>),
                                   assigned["tomorrow"], 1, << >>)
  /\ pc' = "send_tomorrow"
  /\ UNCHANGED << directory, forecast, required, pools, assigned, dirFailed, sent,
                  notifyFailed, result, calcVars, normVars, matchVars >>

\* one call of the notification collaborator
Send(notification, next) ==
  \E outcome \in send_outcomes :
    IF outcome.raises
    THEN pc' = "raised" /\ UNCHANGED << sent, notifyFailed, result >>
    ELSE /\ sent' = Append(sent, notification)
         /\ notifyFailed' = (notifyFailed \/ ~outcome.delivered)
         /\ pc' = next
         /\ result' = IF next = "returned" THEN "schedule_data" ELSE result

\* send_schedule_email(schedule_data['tomorrow'], assigned_employees_tomorrow)
SendTomorrow ==
  /\ pc = "send_tomorrow"
  /\ Send([kind |-> "schedule", day |-> "tomorrow",
           assigned_employees |-> assigned["tomorrow"]], "send_day_after")
  /\ UNCHANGED << directory, forecast, required, pools, assigned, dirFailed, shortages,
                  calcVars, normVars, matchVars >>

\* Variant of SendDayAfter that hands over tomorrow's schedule a second time.
SendDayAfter_tomorrowAgain ==
  /\ pc = "send_day_after"
  /\ Send([kind |-> "schedule", day |-> "tomorrow",
           assigned_employees |-> assigned["tomorrow"]], "send_combined")
  /\ UNCHANGED << directory, forecast, required, pools, assigned, dirFailed, shortages,
                  calcVars, normVars, matchVars >>

\* send_schedule_email(schedule_data['day_after'], assigned_employees_day_after)
SendDayAfter ==
  /\ pc = "send_day_after"
  /\ Send([kind |-> "schedule", day |-> "day_after",
           assigned_employees |-> assigned["day_after"]], "send_combined")
  /\ UNCHANGED << directory, forecast, required, pools, assigned, dirFailed, shortages,
                  calcVars, normVars, matchVars >>

\* send_combined_forecast_email(..., shortages); return schedule_data
SendCombined ==
  /\ pc = "send_combined"
  /\ Send([kind |-> "combined", day |-> "both", shortages |-> shortages], "returned")
  /\ UNCHANGED << directory, forecast, required, pools, assigned, dirFailed, shortages,
                  calcVars, normVars, matchVars >>

Next ==
  \/ FetchTomorrow
  \/ FetchDayAfter
  \/ AbortRun
  \/ CalculateRoles
  \/ AssignTomorrow
  \/ AssignDayAfter
  \/ Shortages
  \/ SendTomorrow
  \/ SendDayAfter
  \/ SendCombined

Spec == Init /\ [][Next]_vars

-----------------------------------------------------------------------------
(* calculate_required_roles applied to arbitrary metrics and forecasts *)

MaxHundreds == 2

\* a forecast quantity: missing (None), zero, small, or hundreds of units
Quantities == {PyNone, 0, 10, 63} \cup {100 * k : k \in 1..MaxHundreds}

ForecastInputs ==
  { EmptyDict } \cup
  [ daily_incoming_pallets : Quantities,
    daily_shipping_pallets : Quantities,
    daily_order_qty        : {PyNone, 0, 56, 3750},
    cases_to_pick          : {0},
    staged_pallets         : Quantities ]

\* metrics summaries: the configured one, one without rates (the hard-coded
\* defaults apply), and ones without an operation
MetricsInputs ==
  { DEFAULT_METRICS,
    [inbound |-> EmptyDict, picking |-> EmptyDict, load |-> EmptyDict],
    [op \in {"picking", "load"} |-> DEFAULT_METRICS[op]],
    [op \in {"inbound", "load"} |-> DEFAULT_METRICS[op]],
    [op \in {"inbound", "picking"} |-> DEFAULT_METRICS[op]],
    EmptyDict }

InitCalc ==
  /\ cpc = "input"
  /\ cMetrics \in MetricsInputs
  /\ cForecast \in ForecastInputs
  /\ cRoles = << >>
  /\ RunIdle /\ NormIdle /\ MatchIdle

Calculate ==
  /\ cpc = "input"
  /\ cRoles' = calculate_required_roles(cMetrics, cForecast)
  /\ cpc' = "done"
  /\ UNCHANGED << cMetrics, cForecast, runVars, normVars, matchVars >>

NextCalc == Calculate

SpecCalc == InitCalc /\ [][NextCalc]_vars

-----------------------------------------------------------------------------
(* normalize_role applied to arbitrary strings, once and twice *)

MaxKeyLen == 3

KeyAlphabet == {"a", "s", "S", " ", "_"}

Keys == UNION {[1..n -> KeyAlphabet] : n \in 0..MaxKeyLen}

InitNorm ==
  /\ npc = "input"
  /\ nKey \in Keys
  /\ nOnce = << >>
  /\ nTwice = << >>
  /\ RunIdle /\ CalcIdle /\ MatchIdle

NormalizeOnce ==
  /\ npc = "input"
  /\ nOnce' = normalize_role(nKey)
  /\ npc' = "once"
  /\ UNCHANGED << nKey, nTwice, runVars, calcVars, matchVars >>

NormalizeTwice ==
  /\ npc = "once"
  /\ nTwice' = normalize_role(nOnce)
  /\ npc' = "twice"
  /\ UNCHANGED << nKey, nOnce, runVars, calcVars, matchVars >>

NextNorm == NormalizeOnce \/ NormalizeTwice

SpecNorm == InitNorm /\ [][NextNorm]_vars

-----------------------------------------------------------------------------
(* find_best_match applied to arbitrary names and candidate lists *)

MaxCandidates == 2

\* the employee collection as find_best_match reads it: per id, what the
\* lookup of the record and the decoding of its name_variations give
NameRecords ==
  { [emp_id |-> <<"a","n","n","a">>, kind |-> "no_key",
     name_variations |-> << >>],
    [emp_id |-> <<"E","2">>, kind |-> "list",
     name_variations |-> <<<<"A","n","n","e">>>>],
    [emp_id |-> <<"E","3">>, kind |-> "list",
     name_variations |-> <<<<"A","n","n","o">>, <<"B","o","b","b","y">>>>],
    [emp_id |-> <<"E","4">>, kind |-> "list",
     name_variations |-> <<<<"A","N","N","A","B","E","L">>, <<"b","o","b">>>>],
    [emp_id |-> <<"E","5">>, kind |-> "list",
     name_variations |-> << >>],
    [emp_id |-> <<"E","6">>, kind |-> "raises",
     name_variations |-> << >>],
    [emp_id |-> <<"E","7">>, kind |-> "no_record",
     name_variations |-> << >>],
    [emp_id |-> <<"E","8">>, kind |-> "malformed",
     name_variations |-> << >>],
    [emp_id |-> <<"E","9">>, kind |-> "list",
     name_variations |-> <<<<"J","o","h","n"," ","S","m","i","t","h">>, <<"A","n","a","b","e","l","a">>>>] }

EmployeeIds == { r.emp_id : r \in NameRecords }

\* employee_collection.get(ids=[emp_id]) followed by json.loads
name_collection == [id \in EmployeeIds |-> CHOOSE r \in NameRecords : r.emp_id = id]

\* the free-text names to resolve
Names ==
  { << >>,
    <<"B","o","b">>,
    <<"a","n","n","a">>,
    <<"A","n","n","a","b","e","l">>,
    <<"Z","e","p","h","y","r">> }

CandidateLists == UNION {[1..n -> EmployeeIds] : n \in 0..MaxCandidates}

InitMatch ==
  /\ mpc = "input"
  /\ mName \in Names
  /\ mCandidates \in CandidateLists
  /\ mResult = PyNoneId
  /\ RunIdle /\ CalcIdle /\ NormIdle

FindBestMatch ==
  /\ mpc = "input"
  /\ mResult' = find_best_match(mName, mCandidates, name_collection)
  /\ mpc' = "done"
  /\ UNCHANGED << mName, mCandidates, runVars, calcVars, normVars >>

NextMatch == FindBestMatch

SpecMatch == InitMatch /\ [][NextMatch]_vars

-----------------------------------------------------------------------------
(* properties *)

\* the ids of the employees of a list
Ids(employees) == [i \in 1..Len(employees) |-> employees[i].id]

NoDuplicates(seq) == \A i, j \in 1..Len(seq) : i # j => seq[i] # seq[j]

\* required_roles[operation][role], 0 when the operation or the role is absent
RoleCount(required_roles, operation, role) ==
  DictGet(DictGet(required_roles, operation, << >>), role, 0)

Operations(required_roles) == [o \in 1..Len(required_roles) |-> required_roles[o][1]]

\* every forecast quantity is a number >= 0
NumericForecast(f) == \A k \in DOMAIN f : f[k] # PyNone /\ f[k] >= 0

\* C1: in every planning run, no employee id appears in the assigned lists of
\* two different roles, and no id appears twice within one role's list.
C1_NoDoubleBooking ==
  \A d \in Days :
    /\ \A i \in 1..Len(assigned[d]) : NoDuplicates(Ids(assigned[d][i][2]))
    /\ \A i, j \in 1..Len(assigned[d]) :
         i # j =>
           \A x \in 1..Len(assigned[d][i][2]), y \in 1..Len(assigned[d][j][2]) :
             assigned[d][i][2][x].id # assigned[d][j][2][y].id

\* C2: for non-negative forecast inputs every required headcount is >= 0, and
\* every operation (inbound, picking, loading) whose workload is strictly
\* positive gets a headcount >= 1 for each of its roles, loading included when
\* only one of staged pallets / shipping-pallet demand is non-zero.
C2_PositiveWorkloadStaffed ==
  (/\ cpc = "done"
   /\ NumericForecast(cForecast)
   /\ cMetrics = DEFAULT_METRICS)
  =>
  LET incoming == Get(cForecast, "daily_incoming_pallets", 0)
      staged   == Get(cForecast, "staged_pallets", 0)
      demand   == ShippingDemand100(Get(cForecast, "daily_shipping_pallets", 0),
                                    Get(cForecast, "daily_order_qty", 0))
  IN  /\ \A o \in 1..Len(cRoles) : \A r \in 1..Len(cRoles[o][2]) : cRoles[o][2][r][2] >= 0
      /\ incoming > 0 =>
           /\ RoleCount(cRoles, s_inbound, s_forklift_driver) >= 1
           /\ RoleCount(cRoles, s_inbound, s_receiver) >= 1
           /\ RoleCount(cRoles, s_inbound, s_bendi_driver) >= 1
      /\ demand > 0 =>
           /\ RoleCount(cRoles, s_picking, s_bendi_driver) >= 1
           /\ RoleCount(cRoles, s_picking, s_general_labor) >= 1
      /\ (staged > 0 \/ demand > 0) =>
           RoleCount(cRoles, s_loading, s_forklift_driver) >= 1

s_forklift_driver_sp == <<"f","o","r","k","l","i","f","t"," ","d","r","i","v","e","r">>
s_bendi_driver_sp    == <<"b","e","n","d","i"," ","d","r","i","v","e","r">>
s_general_labor_sp   == <<"g","e","n","e","r","a","l"," ","l","a","b","o","r">>

\* a role of the shortage map, the (operation, role) leaves of the requirement
\* structure that count towards it, and the role its assignment is stored under
ShortageRoles ==
  { [key |-> s_forklift_driver, under |-> s_forklift_driver_sp,
     leaves |-> {<< s_inbound, s_forklift_driver >>, << s_loading, s_forklift_driver >>}],
    [key |-> s_receiver, under |-> s_receiver,
     leaves |-> {<< s_inbound, s_receiver >>}],
    [key |-> s_bendi_driver, under |-> s_bendi_driver_sp,
     leaves |-> {<< s_inbound, s_bendi_driver >>, << s_picking, s_bendi_driver >>}],
    [key |-> s_general_labor, under |-> s_general_labor_sp,
     leaves |-> {<< s_picking, s_general_labor >>}],
    [key |-> s_consolidation, under |-> s_staff,
     leaves |-> {<< s_replenishment, s_staff >>}] }

RECURSIVE SumLeaves(_, _)
SumLeaves(required_roles, leaves) ==
  IF leaves = {} THEN 0
  ELSE LET l == CHOOSE x \in leaves : TRUE
       IN  RoleCount(required_roles, l[1], l[2]) + SumLeaves(required_roles, leaves \ {l})

ShortagesComputed == pc \in {"send_tomorrow", "send_day_after", "send_combined"}
                       \/ (pc = "returned" /\ result = "schedule_data")

\* C3: for tomorrow's plan a role is in the shortage map iff fewer employees
\* are assigned to it than its required headcount summed over the operations,
\* and then shortage + assigned = required with shortage > 0; every entry of
\* the map is such a role of tomorrow's plan (none comes from the day after).
C3_ShortageIffUnderstaffed ==
  ShortagesComputed =>
    /\ DictKeys(shortages) \subseteq {sr.key : sr \in ShortageRoles}
    /\ \A sr \in ShortageRoles :
         LET required_count == SumLeaves(required["tomorrow"], sr.leaves)
             assigned_count == Len(DictGet(assigned["tomorrow"], sr.under, << >>))
         IN  /\ DictHas(shortages, sr.key) <=> assigned_count < required_count
             /\ DictHas(shortages, sr.key) =>
                  /\ DictGet(shortages, sr.key, 0) + assigned_count = required_count
                  /\ DictGet(shortages, sr.key, 0) > 0

\* a run with one role short, another fully staffed, and a day-after plan
\* whose staffing of the short role differs from tomorrow's
C3_Witness ==
  /\ pc = "returned" /\ result = "schedule_data"
  /\ DictGet(shortages, s_forklift_driver, 0) = 1
  /\ Len(DictGet(assigned["tomorrow"], s_forklift_driver_sp, << >>)) = 1
  /\ ~DictHas(shortages, s_receiver)
  /\ Len(DictGet(assigned["tomorrow"], s_receiver, << >>)) = 1
  /\ Len(DictGet(assigned["day_after"], s_forklift_driver_sp, << >>)) = 0

ForecastFailed(d) ==
  /\ DOMAIN forecast[d] = {}
  /\ IF d = "tomorrow" THEN pc # "fetch_tomorrow"
     ELSE pc \notin {"fetch_tomorrow", "fetch_day_after"}

\* C4: if the forecast stage of either day failed (empty forecast), the run
\* returns no result, and no requirement or assignment is computed and no
\* notification is sent in it, even when the other day's forecast succeeded.
C4_AbortedRun ==
  (\E d \in Days : ForecastFailed(d)) =>
    /\ pc \in {"fetch_day_after", "check", "returned"}
    /\ pc = "returned" => result = "None"
    /\ result # "schedule_data"
    /\ sent = << >>
    /\ \A d \in Days : required[d] = << >> /\ assigned[d] = << >> /\ pools[d] = << >>

\* a finished run whose forecast failed for the day after only
C4_Witness ==
  /\ pc = "returned" /\ result = "None"
  /\ DOMAIN forecast["tomorrow"] # {}
  /\ DOMAIN forecast["day_after"] = {}

\* C5: if the directory fetch failed while a day was being allocated, no
\* schedule of that day is notified and the run does not return a schedule.
C5_DirectoryFailureAborts ==
  \A d \in Days :
    dirFailed[d] =>
      /\ \A i \in 1..Len(sent) : ~(sent[i].kind = "schedule" /\ sent[i].day = d)
      /\ result # "schedule_data"

C7_Idempotent == npc = "twice" => nTwice = nOnce

EndsInSS(s) == Len(s) >= 2 /\ s[Len(s)] = "s" /\ s[Len(s) - 1] = "s"

\* C7 (amended): normalize_role is idempotent on exactly the strings whose
\* lowercased, trimmed form does not end in "ss"; on the others the second
\* application strips one more "s".
C7_IdempotentUnlessDoubleS ==
  npc = "twice" =>
    IF EndsInSS(Strip(Lower(nKey)))
    THEN nOnce = nTwice \o << "s" >>
    ELSE nTwice = nOnce

\* a key that normalisation changes (case, inner whitespace, trailing "s")
\* and whose normal form a second application leaves alone
C7_Witness ==
  /\ npc = "twice"
  /\ nKey = << "S", " ", "s" >>
  /\ nOnce = << "s", "_" >>
  /\ nTwice = nOnce

\* C8: calculate_required_roles never raises: when a step of the computation
\* fails the result is exactly {replenishment: {staff: 1}}, otherwise it is the
\* full structure of the four operations inbound, picking, loading,
\* replenishment.
C8_FallbackOrFullStructure ==
  cpc = "done" =>
    IF CalculationRaises(cMetrics, cForecast)
    THEN cRoles = << << s_replenishment, << << s_staff, 1 >> >> >> >>
    ELSE /\ Operations(cRoles) = << s_inbound, s_picking, s_loading, s_replenishment >>
         /\ [r \in 1..3 |-> cRoles[1][2][r][1]]
              = << s_forklift_driver, s_receiver, s_bendi_driver >>
         /\ [r \in 1..2 |-> cRoles[2][2][r][1]] = << s_bendi_driver, s_general_labor >>
         /\ [r \in 1..1 |-> cRoles[3][2][r][1]] = << s_forklift_driver >>
         /\ [r \in 1..1 |-> cRoles[4][2][r][1]] = << s_staff >>
         /\ Len(cRoles[1][2]) = 3 /\ Len(cRoles[2][2]) = 2
         /\ Len(cRoles[3][2]) = 1 /\ Len(cRoles[4][2]) = 1

\* a computation that failed on the loading key (no staged pallets, shipping
\* demand) and returned the fallback
C8_Witness ==
  /\ cpc = "done"
  /\ NumericForecast(cForecast)
  /\ Get(cForecast, "staged_pallets", 0) = 0
  /\ Get(cForecast, "daily_shipping_pallets", 0) > 0
  /\ cRoles = << << s_replenishment, << << s_staff, 1 >> >> >> >>

\* C9: with staged pallets > 0 and shipping-pallet demand > 0,
\* loading.forklift_driver = max(1, round(staged * load_rate / capacity))
\* + max(1, round(demand * load_rate / capacity)), hence >= 2.  (Forecast
\* quantities are numbers and the metrics hold a "load" entry, whose rate is
\* load_rate.)
C9_LoadingIsSumOfFlooredParts ==
  LET staged == Get(cForecast, "staged_pallets", 0)
      demand == ShippingDemand100(Get(cForecast, "daily_shipping_pallets", 0),
                                  Get(cForecast, "daily_order_qty", 0))
  IN  (/\ cpc = "done"
       /\ NumericForecast(cForecast)
       /\ "load" \in DOMAIN cMetrics
       /\ staged > 0
       /\ demand > 0)
      =>
      LET load_rate == Get(cMetrics["load"], "avg_load_time_per_pallet", 250)
          \* capacity 382.5 min; staged * 100 and demand in hundredths, rate in hundredths
          part(units100) == Max(1, RoundHalfEven(units100 * load_rate, 3825000))
          loading == RoleCount(cRoles, s_loading, s_forklift_driver)
      IN  /\ loading = part(100 * staged) + part(demand)
          /\ loading >= 2

\* staged 10 pallets and 63.75 pallets of demand: each part is floored to 1
\* (the whole, 73.75 pallets, would round to 1 as well) and the sum is 2
C9_Witness ==
  /\ cpc = "done"
  /\ cMetrics = DEFAULT_METRICS
  /\ NumericForecast(cForecast)
  /\ Get(cForecast, "staged_pallets", 0) = 10
  /\ Get(cForecast, "daily_shipping_pallets", 0) = 63
  /\ Get(cForecast, "daily_order_qty", 0) = 56
  /\ RoleCount(cRoles, s_loading, s_forklift_driver) = 2

\* the Role Taxonomy synonyms of a canonical role: the ROLE_MAPPINGS entry
\* whose key names the role (written with "_" or with " ")
TaxonomySynonyms(role) ==
  UNION { {ROLE_MAPPINGS[i][2][t] : t \in 1..Len(ROLE_MAPPINGS[i][2])} :
            i \in {i \in 1..Len(ROLE_MAPPINGS) :
                     ReplaceChar(ROLE_MAPPINGS[i][1], " ", "_") = role} }

\* C10: the candidate pool of each required canonical role (forklift_driver,
\* bendi_driver, receiver, general_labor) is built from search terms that
\* contain the role's Role Taxonomy synonyms, so an available employee whose
\* job title is one of the synonyms is in the role's pool.
C10_SynonymsSearched ==
  \A d \in Days :
    \A role \in {s_forklift_driver, s_bendi_driver, s_receiver, s_general_labor} :
      LET base_role == ReplaceChar(role, "_", " ")
          pool      == DictGet(pools[d], base_role, << >>)
      IN  DictHas(pools[d], base_role) =>
            \A i \in 1..Len(directory) :
              (/\ is_employee_available(directory[i].metadata)
               /\ \E syn \in TaxonomySynonyms(role) :
                    Lower(Get(directory[i].metadata, "original_job_title", << >>))
                      = Lower(syn))
              => \E k \in 1..Len(pool) : pool[k].id = directory[i].id

\* the day's allocation has been made
Allocated(d) ==
  IF d = "tomorrow"
  THEN pc \in {"assign_day_after", "shortages", "send_tomorrow", "send_day_after",
               "send_combined"} \/ (pc = "returned" /\ result = "schedule_data")
  ELSE pc \in {"shortages", "send_tomorrow", "send_day_after", "send_combined"}
         \/ (pc = "returned" /\ result = "schedule_data")

\* C11: after a day's allocation, the assigned list of every canonical role is
\* the first min(R, P) employees of the role's candidate pool, in pool order,
\* where R is the role's required headcount summed over the operations that
\* need it and P is the size of the pool; no other role has an assigned list.
C11_AssignedIsPoolPrefix ==
  \A d \in Days :
    Allocated(d) =>
      /\ DictKeys(assigned[d]) \subseteq {sr.under : sr \in ShortageRoles}
      /\ \A sr \in ShortageRoles :
           LET R    == SumLeaves(required[d], sr.leaves)
               pool == DictGet(pools[d], sr.under, << >>)
           IN  DictGet(assigned[d], sr.under, << >>) = SubSeq(pool, 1, Min(R, Len(pool)))

\* tomorrow's allocation with pools of two: the bendi drivers needed by
\* inbound (1) and by picking (1) take the whole pool, the forklift drivers
\* needed by inbound (1) and by loading (2) exhaust theirs, and the one
\* receiver needed is the first of its pool
C11_Witness ==
  /\ Allocated("tomorrow")
  /\ RoleCount(required["tomorrow"], s_inbound, s_bendi_driver) = 1
  /\ RoleCount(required["tomorrow"], s_picking, s_bendi_driver) = 1
  /\ Len(DictGet(pools["tomorrow"], s_bendi_driver_sp, << >>)) = 2
  /\ Len(DictGet(assigned["tomorrow"], s_bendi_driver_sp, << >>)) = 2
  /\ RoleCount(required["tomorrow"], s_loading, s_forklift_driver) = 2
  /\ Len(DictGet(assigned["tomorrow"], s_forklift_driver_sp, << >>)) = 2
  /\ Len(DictGet(pools["tomorrow"], s_receiver, << >>)) = 2
  /\ Ids(DictGet(assigned["tomorrow"], s_receiver, << >>)) = << 1 >>

\* the name variants find_best_match compares for a candidate: the stored
\* names, the id itself when none is stored, none when the record cannot be
\* read
Variants(emp_id) ==
  LET answer == name_collection[emp_id]
  IN  IF answer.kind \in {"raises", "no_record", "malformed"} THEN << >>
      ELSE IF answer.kind = "list" /\ answer.name_variations # << >>
           THEN answer.name_variations
           ELSE << emp_id >>

\* (candidate position, variant position) of every variant compared
VariantPositions ==
  UNION { { << i, v >> : v \in 1..Len(Variants(mCandidates[i])) } :
            i \in 1..Len(mCandidates) }

VariantAt(p) == Lower(Variants(mCandidates[p[1]])[p[2]])

\* the first candidate of the list that owns one of the variants at ps
FirstOwner(ps) ==
  mCandidates[CHOOSE i \in {p[1] : p \in ps} : \A p \in ps : i <= p[1]]

\* C12: find_best_match(query, candidates) returns the id of the first
\* candidate one of whose variants equals the query case-insensitively, if
\* there is one; otherwise, with d the minimum edit distance between the query
\* and the variants of all candidates, it returns the candidate owning a
\* variant at distance d (the first in list order) iff d <= 0.3 * len(query),
\* and None otherwise, in particular when there is no variant at all.
C12_BestMatch ==
  mpc = "done" =>
    LET exact == {p \in VariantPositions : VariantAt(p) = Lower(mName)}
        dist(p) == Levenshtein_distance(Lower(mName), VariantAt(p))
        nearest == {p \in VariantPositions :
                      \A q \in VariantPositions : dist(p) <= dist(q)}
    IN  IF exact # {} THEN mResult = << FirstOwner(exact) >>
        ELSE IF nearest # {}
                /\ \E p \in nearest : 10 * dist(p) <= 3 * Len(mName)
             THEN mResult = << FirstOwner(nearest) >>
             ELSE mResult = PyNoneId

\* "anna" against a candidate storing "Anno" and one storing "Anne": no exact
\* match, both at distance 1 <= 1.2, the first is returned
C12_Witness ==
  /\ mpc = "done"
  /\ mName = <<"a","n","n","a">>
  /\ mCandidates = << <<"E","3">>, <<"E","2">> >>
  /\ mResult = << <<"E","3">> >>

\* an employee record that is active (not flagged inactive), not on leave,
\* and has no shift preference recorded or one that includes "day"
ActiveNotOnLeaveDayShift(metadata) ==
  /\ "active" \in DOMAIN metadata => metadata.active = TRUE
  /\ "on_leave" \in DOMAIN metadata => metadata.on_leave = FALSE
  /\ \/ "shift_preferences" \notin DOMAIN metadata
     \/ metadata.shift_preferences = << >>
     \/ \E i \in 1..(Len(metadata.shift_preferences) - 2) :
          SubSeq(metadata.shift_preferences, i, i + 2) = << "d", "a", "y" >>

\* the employee is a record of the directory and is available there
AvailableInDirectory(employee) ==
  \E i \in 1..Len(directory) :
    /\ directory[i] = employee
    /\ ActiveNotOnLeaveDayShift(directory[i].metadata)

\* C13: every employee in a candidate pool built by retrieve_employees, and
\* every employee in an assigned list of the run, is in the directory that was
\* read an employee who is active, not on leave, and has no shift preference
\* or one that includes day.
C13_OnlyAvailableScheduled ==
  \A d \in Days :
    /\ \A r \in 1..Len(pools[d]) : \A k \in 1..Len(pools[d][r][2]) :
         AvailableInDirectory(pools[d][r][2][k])
    /\ \A r \in 1..Len(assigned[d]) : \A k \in 1..Len(assigned[d][r][2]) :
         AvailableInDirectory(assigned[d][r][2][k])

\* a directory of two receivers, the first on leave: the receiver pool and
\* the receiver assignment of tomorrow hold the second one only
C13_Witness ==
  /\ Allocated("tomorrow")
  /\ Len(directory) = 2
  /\ Get(directory[1].metadata, "on_leave", FALSE)
  /\ Get(directory[1].metadata, "normalized_job_title", << >>) = s_receiver
  /\ Get(directory[2].metadata, "normalized_job_title", << >>) = s_receiver
  /\ Ids(DictGet(pools["tomorrow"], s_receiver, << >>)) = << 2 >>
  /\ Ids(DictGet(assigned["tomorrow"], s_receiver, << >>)) = << 2 >>

\* the notifications of a complete run, in the order of the calls
ExpectedNotifications ==
  << [kind |-> "schedule", day |-> "tomorrow",
      assigned_employees |-> assigned["tomorrow"]],
     [kind |-> "schedule", day |-> "day_after",
      assigned_employees |-> assigned["day_after"]],
     [kind |-> "combined", day |-> "both", shortages |-> shortages] >>

\* C14: the notifications handed over so far are the first ones of: tomorrow's
\* schedule, the day-after's schedule, the combined forecast with tomorrow's
\* shortages; none is handed over before both forecasts are fetched and both
\* days' requirements, assignments and the shortages are computed; and a run
\* that was not aborted has handed over exactly these three when it returns.
C14_ThreeNotificationsInOrder ==
  /\ Len(sent) <= 3
  /\ sent = SubSeq(ExpectedNotifications, 1, Len(sent))
  /\ sent # << >> =>
       /\ \A d \in Days :
            /\ DOMAIN forecast[d] # {}
            /\ required[d] # << >>
            /\ Allocated(d)
       /\ ShortagesComputed
  /\ (/\ pc = "returned"
      /\ \A d \in Days : DOMAIN forecast[d] # {})
     => result = "schedule_data" /\ Len(sent) = 3

\* a returned run whose two schedules differ and whose combined forecast
\* reports a shortage
C14_Witness ==
  /\ pc = "returned" /\ result = "schedule_data"
  /\ Len(sent) = 3
  /\ sent[1].assigned_employees # sent[2].assigned_employees
  /\ sent[3].shortages # << >>
  /\ notifyFailed

s_receiver_title == <<"R","e","c","e","i","v","e","r">>

\* the raw or the normalized job title of the record is empty or missing
TitleEmptyOrMissing(metadata) ==
  \/ "original_job_title" \notin DOMAIN metadata
  \/ "normalized_job_title" \notin DOMAIN metadata
  \/ metadata.original_job_title = << >>
  \/ metadata.normalized_job_title = << >>

\* the canonical roles requested for a day: those with a leaf in the day's
\* requirement structure
RequestedRoles(d) ==
  { sr \in ShortageRoles :
      \E l \in sr.leaves : DictHas(DictGet(required[d], l[1], << >>), l[2]) }

\* C15: when retrieve_employees has read the directory for a day's
\* allocation, every available employee whose raw or normalized job title is
\* empty or missing is in the candidate pool of every requested role.
C15_EmptyTitleMatchesEveryRole ==
  \A d \in Days :
    (Allocated(d) /\ ~dirFailed[d]) =>
      \A i \in 1..Len(directory) :
        (/\ ActiveNotOnLeaveDayShift(directory[i].metadata)
         /\ TitleEmptyOrMissing(directory[i].metadata))
        => \A sr \in RequestedRoles(d) :
             \E k \in 1..Len(DictGet(pools[d], sr.under, << >>)) :
               DictGet(pools[d], sr.under, << >>)[k] = directory[i]

\* a receiver whose normalized title is empty and an employee without any
\* title are both candidates for forklift driver, bendi driver and general
\* labor
C15_Witness ==
  /\ Allocated("tomorrow") /\ ~dirFailed["tomorrow"]
  /\ Len(directory) = 2
  /\ Get(directory[1].metadata, "original_job_title", << >>) = s_receiver_title
  /\ Get(directory[1].metadata, "normalized_job_title", s_receiver) = << >>
  /\ directory[2].metadata = EmptyDict
  /\ Ids(DictGet(pools["tomorrow"], s_forklift_driver_sp, << >>)) = << 1, 2 >>
  /\ Ids(DictGet(pools["tomorrow"], s_bendi_driver_sp, << >>)) = << 1, 2 >>
  /\ Ids(DictGet(pools["tomorrow"], s_general_labor_sp, << >>)) = << 1, 2 >>

====
